---- MODULE Spec2Model ----
(***************************************************************************)
(* A model of the block editor and its script engine, in the two program  *)
(* variants of the repository:                                             *)
(*   variant = "main"  is src/main.cpp                                     *)
(*   variant = "part"  is src/unnamed/part_000                             *)
(* A name that both files define differently carries the suffix M (for    *)
(* main.cpp) or P (for part_000); every other name is the source's.        *)
(* Indices are 0-based as in the C++ code; workspace[i + 1] is the code's  *)
(* workspace[i].  Strings the code edits are sequences of one-character    *)
(* strings.                                                                *)
(***************************************************************************)
EXTENDS Integers, Sequences, FiniteSets

\* ------------------------------------------------------------------ bounds
\* Longest workspace the drag actions build (palette pick-ups stop there).
MaxLen == 2
\* Longest script the engine specification starts from.
MaxScript == 2
\* Script starts per behaviour (the sprite position of main.cpp is unbounded).
MaxRuns == 1
\* Longest edit buffer the model types (part_000 sets no limit).
MaxBuf == 3
\* Milliseconds that pass in one AdvanceTime step.
FrameMs == 200

\* ------------------------------------------------- constants of part_000
WINDOW_W_P == 1150
WINDOW_H_P == 720
CAT_W == 260
STAGE_W_P == 400
STAGE_H == 400
SCRIPTS_X == CAT_W
SCRIPTS_W == WINDOW_W_P - CAT_W - STAGE_W_P
STAGE_X_P == CAT_W + SCRIPTS_W
STAGE_Y == 20
BLOCK_W == 190
BLOCK_H == 40
BLOCK_GAP_P == 8
STEP_DELAY == 400
\* the pill of DrawValuePill and of the badge hit test
PW == 46
PH == 22
\* the clamp margin of UpdateScript
MARGIN == 30

\* -------------------------------------------------- constants of main.cpp
WINDOW_W_M == 1100
WINDOW_H_M == 650
PALETTE_W == 200
WORKSPACE_X == PALETTE_W
WORKSPACE_W == 500
STAGE_X_M == PALETTE_W + WORKSPACE_W
BLOCK_WIDTH == 170
BLOCK_HEIGHT == 38
BLOCK_GAP_M == 10
\* the literal step delay of UpdateScript
STEP_DELAY_M == 400
\* the badge of DrawValueBadge and of the badge hit test
BADGE_W == 52
BADGE_H == 20
BADGE_INSET == 58
\* the edit buffer's length limit
EDIT_MAX == 5
\* one wheel notch
WHEEL_STEP == 5
\* the sprite's initial coordinate
SPRITE_START_M == 200

\* --------------------------------------------------------------- geometry
Rect(x, y, w, h) == [x |-> x, y |-> y, w |-> w, h |-> h]

Point(x, y) == [x |-> x, y |-> y]

\* SDL_PointInRect
PointInRect(p, r) ==
    /\ p.x >= r.x
    /\ p.x < r.x + r.w
    /\ p.y >= r.y
    /\ p.y < r.y + r.h

Min(a, b) == IF a < b THEN a ELSE b

Max(a, b) == IF a > b THEN a ELSE b

\* C++ integer division truncates toward zero.
DivT(a, b) == IF a >= 0 THEN a \div b ELSE -((-a) \div b)

\* vector::erase(begin() + i) and vector::insert(begin() + i, b), 0-based
EraseAt(s, i) == [k \in 1..(Len(s) - 1) |-> IF k <= i THEN s[k] ELSE s[k + 1]]

InsertAt(s, i, b) ==
    [k \in 1..(Len(s) + 1) |-> IF k <= i THEN s[k] ELSE IF k = i + 1 THEN b ELSE s[k - 1]]

\* -------------------------------------------------------- numbers as text
INT_MAX == 2147483647

Digits == <<"0", "1", "2", "3", "4", "5", "6", "7", "8", "9">>

IsDigit(ch) == \E d \in 1..10 : Digits[d] = ch

DigitVal(ch) == (CHOOSE d \in 1..10 : Digits[d] = ch) - 1

\* a std::to_string that yields no text
ToStringEmpty(n) == <<>>

RECURSIVE NatToString(_)
NatToString(n) ==
    IF n < 10 THEN <<Digits[n + 1]>>
    ELSE Append(NatToString(n \div 10), Digits[(n % 10) + 1])

\* std::to_string(int)
ToString(n) == IF n < 0 THEN <<"-">> \o NatToString(-n) ELSE NatToString(n)

\* The longest prefix of digits of s from position i on: its value negated
\* (the magnitude of INT_MIN is no int), how many digits it has, and whether
\* the value left the int range on the way.
RECURSIVE DigitRun(_, _, _, _, _)
DigitRun(s, i, acc, cnt, over) ==
    IF i > Len(s) \/ ~IsDigit(s[i]) THEN [neg |-> acc, cnt |-> cnt, over |-> over]
    ELSE LET d   == DigitVal(s[i])
             out == \/ over
                    \/ acc < -(INT_MAX \div 10)
                    \/ (acc = -(INT_MAX \div 10) /\ d > (INT_MAX % 10) + 1)
         IN  DigitRun(s, i + 1, IF out THEN acc ELSE acc * 10 - d, cnt + 1, out)

\* a std::stoi that saturates at INT_MAX and INT_MIN instead of throwing
\* std::out_of_range, as strtol does
StoiSaturates(s) ==
    LET neg == Len(s) >= 1 /\ s[1] = "-"
        pos == Len(s) >= 1 /\ s[1] = "+"
        run == DigitRun(s, IF neg \/ pos THEN 2 ELSE 1, 0, 0, FALSE)
    IN  IF run.cnt = 0 THEN [ok |-> FALSE, val |-> 0]
        ELSE IF run.over \/ (~neg /\ run.neg < -INT_MAX)
        THEN [ok |-> TRUE, val |-> IF neg THEN -INT_MAX - 1 ELSE INT_MAX]
        ELSE [ok |-> TRUE, val |-> IF neg THEN run.neg ELSE -run.neg]

\* std::stoi(s): an optional sign, then digits up to the first other
\* character; ok = FALSE stands for the exception (std::invalid_argument
\* when there is no digit, std::out_of_range outside the int range).
Stoi(s) ==
    LET neg == Len(s) >= 1 /\ s[1] = "-"
        pos == Len(s) >= 1 /\ s[1] = "+"
        run == DigitRun(s, IF neg \/ pos THEN 2 ELSE 1, 0, 0, FALSE)
    IN  IF run.cnt = 0 THEN [ok |-> FALSE, val |-> 0]
        ELSE IF run.over \/ (~neg /\ run.neg < -INT_MAX)
        THEN [ok |-> FALSE, val |-> 0]
        ELSE [ok |-> TRUE, val |-> IF neg THEN run.neg ELSE -run.neg]

\* ----------------------------------------------------------------- blocks
\* part_000: struct Block (the colour, which only rendering reads, is left out)
BlockP(rect, category, type, steps, isHat) ==
    [rect |-> rect, category |-> category, type |-> type, steps |-> steps,
     isHat |-> isHat]

\* main.cpp: struct Block (without the colour)
BlockM(rect, cat, type, steps) ==
    [rect |-> rect, cat |-> cat, type |-> type, steps |-> steps]

\* Block dragBlock = {}: every member zero
ZeroBlock == BlockP(Rect(0, 0, 0, 0), "BCAT_EVENT", "EVENT_FLAG", 0, FALSE)

\* the types whose value badge the code draws and hit-tests
IsMotionP(type) == type \in {"CHANGE_X", "CHANGE_Y", "SET_X", "SET_Y"}

IsMotionM(type) == type \in {"MOVE_X", "MOVE_Y"}

\* ---------------------------------------------------------------- palette
\* part_000 BuildPalette: the calls of addHeader and mk, and the y += 15
\* between the categories, in the order of the code.
PaletteItemsP ==
    << [op |-> "header"],
       [op |-> "mk", t |-> "EVENT_FLAG", bc |-> "BCAT_EVENT", hat |-> TRUE, val |-> 0],
       [op |-> "gap"],
       [op |-> "header"],
       [op |-> "mk", t |-> "CHANGE_X", bc |-> "BCAT_MOTION", hat |-> FALSE, val |-> 10],
       [op |-> "mk", t |-> "CHANGE_Y", bc |-> "BCAT_MOTION", hat |-> FALSE, val |-> 10],
       [op |-> "mk", t |-> "SET_X", bc |-> "BCAT_MOTION", hat |-> FALSE, val |-> 0],
       [op |-> "mk", t |-> "SET_Y", bc |-> "BCAT_MOTION", hat |-> FALSE, val |-> 0],
       [op |-> "gap"],
       [op |-> "header"],
       [op |-> "mk", t |-> "LOOKS_SHOW", bc |-> "BCAT_LOOKS", hat |-> FALSE, val |-> 0],
       [op |-> "mk", t |-> "LOOKS_HIDE", bc |-> "BCAT_LOOKS", hat |-> FALSE, val |-> 0] >>

RECURSIVE RunPaletteP(_, _, _, _)
RunPaletteP(items, i, y, acc) ==
    IF i > Len(items) THEN acc
    ELSE LET it == items[i] IN
         IF it.op = "header" THEN RunPaletteP(items, i + 1, y + 35, acc)
         ELSE IF it.op = "gap" THEN RunPaletteP(items, i + 1, y + 15, acc)
         ELSE LET h  == IF it.hat THEN BLOCK_H + 12 ELSE BLOCK_H
                  ry == IF it.hat THEN y + 14 ELSE y
                  b  == BlockP(Rect(25, ry, BLOCK_W, h), it.bc, it.t, it.val, it.hat)
              IN  RunPaletteP(items, i + 1,
                              y + h + BLOCK_GAP_P + (IF it.hat THEN 14 ELSE 0),
                              Append(acc, b))

\* part_000 BuildPalette(): palette.clear(), then the catalog
BuildPaletteP(old) == RunPaletteP(PaletteItemsP, 1, 20, <<>>)

\* main.cpp BuildPalette: the calls of add and the y += 8 between the groups
PaletteItemsM ==
    << [op |-> "add", cat |-> "EVENT", type |-> "EVENT_FLAG", steps |-> 0],
       [op |-> "gap"],
       [op |-> "add", cat |-> "MOTION", type |-> "MOVE_X", steps |-> 10],
       [op |-> "add", cat |-> "MOTION", type |-> "MOVE_Y", steps |-> 10],
       [op |-> "gap"],
       [op |-> "add", cat |-> "LOOKS", type |-> "LOOKS_SHOW", steps |-> 0],
       [op |-> "add", cat |-> "LOOKS", type |-> "LOOKS_HIDE", steps |-> 0] >>

RECURSIVE RunPaletteM(_, _, _, _)
RunPaletteM(items, i, y, acc) ==
    IF i > Len(items) THEN acc
    ELSE LET it == items[i] IN
         IF it.op = "gap" THEN RunPaletteM(items, i + 1, y + 8, acc)
         ELSE RunPaletteM(items, i + 1, y + BLOCK_HEIGHT + BLOCK_GAP_M,
                          Append(acc, BlockM(Rect(15, y, BLOCK_WIDTH, BLOCK_HEIGHT),
                                             it.cat, it.type, it.steps)))

\* main.cpp BuildPalette(): push_back onto the palette as it is (no clear)
BuildPaletteM(old) == RunPaletteM(PaletteItemsM, 1, 10, old)

\* ----------------------------------------------------------------- layout
\* part_000 LayoutWorkspace: the loop over workspace[i..], yy the running y
RECURSIVE LayoutFrom(_, _, _)
LayoutFrom(ws, i, yy) ==
    IF i > Len(ws) THEN ws
    ELSE LET b  == ws[i]
             h  == IF b.isHat THEN BLOCK_H + 12 ELSE BLOCK_H
             y  == IF b.isHat THEN yy + 14 ELSE yy
             nb == [b EXCEPT !.rect = Rect(SCRIPTS_X + 20, y, BLOCK_W + 20, h)]
         IN  LayoutFrom([ws EXCEPT ![i] = nb], i + 1, y + h + BLOCK_GAP_P)

\* a relayout that leaves every rect as it is
LayoutKeeps(ws) == ws

LayoutWorkspace(ws) == LayoutFrom(ws, 1, 60)

\* ------------------------------------------------------------------ state
VARIABLES
    variant,            \* which program runs: "main" or "part"
    palette,            \* both: std::vector<Block> palette
    workspace,          \* both: std::vector<Block> workspace
    draggingIdx,        \* main.cpp: index of the dragged block, -1 = none
    dragOffset,         \* main.cpp: SDL_Point dragOffset
    dragging,           \* part_000: bool dragging
    dragBlock,          \* part_000: the floating block
    dragOffX,           \* part_000
    dragOffY,           \* part_000
    dragFromPalette,    \* part_000
    dragWorkspaceIdx,   \* part_000
    editingIdx,         \* both: index being edited (main.cpp: -1 = none)
    editBuffer,         \* main.cpp: std::string editBuffer
    editingValue,       \* part_000: bool editingValue
    inputBuffer,        \* part_000: std::string inputBuffer
    running,            \* main.cpp: bool running
    scriptRunning,      \* part_000: bool scriptRunning
    scriptStep,         \* both
    elapsed,            \* both: now - lastStepTime, saturated at the step delay
    highlightIdx,       \* main.cpp
    spriteX,            \* both (the floats hold integers throughout)
    spriteY,
    spriteVisible,
    \* history variables, which no code reads
    runs,               \* calls of StartScript() so far
    applied,            \* blocks applied since the last start
    startIndex,         \* scriptStep as the last start set it, -1 = never started
    dragOrigin,         \* "none", "palette" or "workspace": where the drag began
    dragStart,          \* the workspace as the pointer-down of the drag found it
    editSnapshot,       \* the workspace as the last edit session found it
    typed,              \* the characters typed since that session began
    editEnd             \* how it ended: "enter", "escape", "click"; else "none"

constV == <<variant, palette>>

dragV == <<draggingIdx, dragOffset, dragging, dragBlock, dragOffX, dragOffY,
           dragFromPalette, dragWorkspaceIdx, dragOrigin, dragStart>>

editV == <<editingIdx, editBuffer, editingValue, inputBuffer, editSnapshot, typed,
           editEnd>>

engineV == <<running, scriptRunning, scriptStep, elapsed, highlightIdx,
             runs, applied, startIndex>>

spriteV == <<spriteX, spriteY, spriteVisible>>

vars == <<constV, workspace, dragV, editV, engineV, spriteV>>

\* `typed` once the session's keys are no longer followed
Untraced == <<"?">>

\* how many typed characters `typed` follows
TraceLen == 2

\* The state right after main() has called BuildPalette(), before any event.
InitOf(v, ws) ==
    /\ variant = v
    /\ palette = IF v = "main" THEN BuildPaletteM(<<>>) ELSE BuildPaletteP(<<>>)
    /\ workspace = ws
    /\ draggingIdx = -1
    /\ dragOffset = Point(0, 0)
    /\ dragging = FALSE
    /\ dragBlock = ZeroBlock
    /\ dragOffX = 0
    /\ dragOffY = 0
    /\ dragFromPalette = FALSE
    /\ dragWorkspaceIdx = -1
    /\ editingIdx = -1
    /\ editBuffer = <<>>
    /\ editingValue = FALSE
    /\ inputBuffer = <<>>
    /\ running = FALSE
    /\ scriptRunning = FALSE
    /\ scriptStep = 0
    /\ elapsed = 0
    /\ highlightIdx = -1
    /\ spriteX = IF v = "main" THEN SPRITE_START_M ELSE STAGE_W_P \div 2
    /\ spriteY = IF v = "main" THEN SPRITE_START_M ELSE STAGE_H \div 2
    /\ spriteVisible = TRUE
    /\ runs = 0
    /\ applied = 0
    /\ startIndex = -1
    /\ dragOrigin = "none"
    /\ dragStart = <<>>
    /\ editSnapshot = <<>>
    /\ typed = <<>>
    /\ editEnd = "none"

Init == \E v \in {"main", "part"} : InitOf(v, <<>>)

\* ---------------------------------------------------------- script engine
Sprite(x, y, visible) == [x |-> x, y |-> y, visible |-> visible]

\* a start that scans for the first hat block and begins after it
StartStepScans(ws) ==
    IF \E i \in 1..Len(ws) : ws[i].type = "EVENT_FLAG"
    THEN CHOOSE i \in 1..Len(ws) :
             /\ ws[i].type = "EVENT_FLAG"
             /\ \A j \in 1..(i - 1) : ws[j].type # "EVENT_FLAG"
    ELSE 0

\* a start that resumes where STOP left the script
StartStepResumes(ws) == scriptStep

\* part_000 StartScript: scriptStep = 0, or 1 when slot 0 holds the hat
StartStepP(ws) == IF Len(ws) > 0 /\ ws[1].type = "EVENT_FLAG" THEN 1 ELSE 0

\* a scan that stops at the last EVENT_FLAG block instead of the first
LastFlagM(ws) ==
    IF \E i \in 1..Len(ws) : ws[i].type = "EVENT_FLAG"
    THEN (CHOOSE i \in 1..Len(ws) :
              /\ ws[i].type = "EVENT_FLAG"
              /\ \A j \in (i + 1)..Len(ws) : ws[j].type # "EVENT_FLAG") - 1
    ELSE -1

\* main.cpp StartScript: the index of the first EVENT_FLAG block, -1 if none
FirstFlagM(ws) ==
    IF \E i \in 1..Len(ws) : ws[i].type = "EVENT_FLAG"
    THEN (CHOOSE i \in 1..Len(ws) :
              /\ ws[i].type = "EVENT_FLAG"
              /\ \A j \in 1..(i - 1) : ws[j].type # "EVENT_FLAG") - 1
    ELSE -1

\* a gate that opens after half the delay
GateHalfDelay(e, delay) == e < delay \div 2

\* the time gate of UpdateScript: now - lastStepTime < delay returns
GateClosed(e, delay) == e < delay

\* scriptStep += 2, a step that skips a block
NextStepSkips(step) == step + 2

\* scriptStep++
NextStep(step) == step + 1

\* the switch with CHANGE_Y adding as CHANGE_X does
EffectPAddsY(b, sp) ==
    CASE b.type = "CHANGE_X"   -> [sp EXCEPT !.x = sp.x + b.steps]
      [] b.type = "CHANGE_Y"   -> [sp EXCEPT !.y = sp.y + b.steps]
      [] b.type = "SET_X"      -> [sp EXCEPT !.x = (STAGE_W_P \div 2) + b.steps]
      [] b.type = "SET_Y"      -> [sp EXCEPT !.y = (STAGE_H \div 2) - b.steps]
      [] b.type = "LOOKS_SHOW" -> [sp EXCEPT !.visible = TRUE]
      [] b.type = "LOOKS_HIDE" -> [sp EXCEPT !.visible = FALSE]
      [] OTHER                 -> sp

\* part_000 UpdateScript: the switch over b.type
EffectP(b, sp) ==
    CASE b.type = "CHANGE_X"   -> [sp EXCEPT !.x = sp.x + b.steps]
      [] b.type = "CHANGE_Y"   -> [sp EXCEPT !.y = sp.y - b.steps]
      [] b.type = "SET_X"      -> [sp EXCEPT !.x = (STAGE_W_P \div 2) + b.steps]
      [] b.type = "SET_Y"      -> [sp EXCEPT !.y = (STAGE_H \div 2) - b.steps]
      [] b.type = "LOOKS_SHOW" -> [sp EXCEPT !.visible = TRUE]
      [] b.type = "LOOKS_HIDE" -> [sp EXCEPT !.visible = FALSE]
      [] OTHER                 -> sp

\* an UpdateScript without the two clamping lines
ClampPKeeps(v, size) == v

\* part_000 UpdateScript: std::max(30.0f, std::min((float)size - 30, v))
ClampP(v, size) == Max(MARGIN, Min(size - MARGIN, v))

\* part_000 UpdateScript: if (scriptStep >= size) scriptRunning = false,
\* after the step
RunEndsP(step, size) == step >= size

\* main.cpp UpdateScript: the switch over cur.type
EffectM(b, sp) ==
    CASE b.type = "MOVE_X"     -> [sp EXCEPT !.x = sp.x + b.steps]
      [] b.type = "MOVE_Y"     -> [sp EXCEPT !.y = sp.y + b.steps]
      [] b.type = "LOOKS_SHOW" -> [sp EXCEPT !.visible = TRUE]
      [] b.type = "LOOKS_HIDE" -> [sp EXCEPT !.visible = FALSE]
      [] OTHER                 -> sp

\* a check that lets scriptStep = size through
StepPastEndOffByOne(step, size) == step > size

\* both UpdateScript functions: if (scriptStep >= (int)workspace.size()),
\* before the block is read
StepPastEnd(step, size) == step >= size

\* Block& b = workspace[scriptStep]: the block read.  An index outside the
\* vector is undefined behaviour; the read may then give any block.
BlockRead(ws, step) ==
    IF step >= 0 /\ step < Len(ws)
    THEN {ws[step + 1]}
    ELSE {palette[i] : i \in 1..Len(palette)}

\* part_000 StartScript()
StartScriptP ==
    /\ scriptRunning' = TRUE
    /\ scriptStep' = StartStepP(workspace)
    /\ elapsed' = 0
    /\ runs' = runs + 1
    /\ applied' = 0
    /\ startIndex' = scriptStep'
    /\ UNCHANGED <<running, highlightIdx>>

\* main.cpp StartScript()
StartScriptM ==
    LET i == FirstFlagM(workspace) IN
    IF i >= 0
    THEN /\ running' = TRUE
         /\ scriptStep' = i + 1
         /\ elapsed' = 0
         /\ highlightIdx' = i
         /\ runs' = runs + 1
         /\ applied' = 0
         /\ startIndex' = scriptStep'
         /\ UNCHANGED scriptRunning
    ELSE /\ runs' = runs + 1
         /\ UNCHANGED <<running, scriptRunning, scriptStep, elapsed, highlightIdx,
                        applied, startIndex>>

\* part_000 UpdateScript()
UpdateScriptP ==
    /\ variant = "part"
    /\ UNCHANGED <<constV, workspace, dragV, editV, running, highlightIdx, runs,
                   startIndex>>
    /\ IF ~scriptRunning
       THEN UNCHANGED <<scriptRunning, scriptStep, elapsed, applied, spriteV>>
       ELSE IF StepPastEnd(scriptStep, Len(workspace))
       THEN /\ scriptRunning' = FALSE
            /\ UNCHANGED <<scriptStep, elapsed, applied, spriteV>>
       ELSE IF GateClosed(elapsed, STEP_DELAY)
       THEN UNCHANGED <<scriptRunning, scriptStep, elapsed, applied, spriteV>>
       ELSE \E b \in BlockRead(workspace, scriptStep) :
            LET sp == EffectP(b, Sprite(spriteX, spriteY, spriteVisible))
            IN  /\ elapsed' = 0
                /\ spriteX' = ClampP(sp.x, STAGE_W_P)
                /\ spriteY' = ClampP(sp.y, STAGE_H)
                /\ spriteVisible' = sp.visible
                /\ scriptStep' = NextStep(scriptStep)
                /\ scriptRunning' = ~RunEndsP(scriptStep', Len(workspace))
                /\ applied' = applied + 1

\* main.cpp UpdateScript()
UpdateScriptM ==
    /\ variant = "main"
    /\ UNCHANGED <<constV, workspace, dragV, editV, scriptRunning, runs, startIndex>>
    /\ IF ~running
       THEN UNCHANGED <<running, scriptStep, elapsed, highlightIdx, applied, spriteV>>
       ELSE IF StepPastEnd(scriptStep, Len(workspace))
       THEN /\ running' = FALSE
            /\ highlightIdx' = -1
            /\ UNCHANGED <<scriptStep, elapsed, applied, spriteV>>
       ELSE IF GateClosed(elapsed, STEP_DELAY_M)
       THEN UNCHANGED <<running, scriptStep, elapsed, highlightIdx, applied, spriteV>>
       ELSE \E b \in BlockRead(workspace, scriptStep) :
            LET sp == EffectM(b, Sprite(spriteX, spriteY, spriteVisible))
            IN  /\ elapsed' = 0
                /\ highlightIdx' = scriptStep
                /\ spriteX' = sp.x
                /\ spriteY' = sp.y
                /\ spriteVisible' = sp.visible
                /\ scriptStep' = NextStep(scriptStep)
                /\ applied' = applied + 1
                /\ UNCHANGED running

\* The clock between two frames: SDL_GetTicks() and steady_clock::now() move
\* on by FrameMs.  Both variants read the clock only as now - lastStepTime
\* and compare it with the step delay, so the model keeps that difference,
\* saturated at the delay.
AdvanceTime ==
    /\ elapsed' = Min(elapsed + FrameMs,
                      IF variant = "main" THEN STEP_DELAY_M ELSE STEP_DELAY)
    /\ UNCHANGED <<constV, workspace, dragV, editV, running, scriptRunning,
                   scriptStep, highlightIdx, runs, applied, startIndex, spriteV>>

\* ------------------------------------------------------ hit tests, editing
\* the first block of `blocks` whose rect holds p (0-based), -1 if none
FirstHit(blocks, p) ==
    IF \E i \in 1..Len(blocks) : PointInRect(p, blocks[i].rect)
    THEN (CHOOSE i \in 1..Len(blocks) :
              /\ PointInRect(p, blocks[i].rect)
              /\ \A j \in 1..(i - 1) : ~PointInRect(p, blocks[j].rect)) - 1
    ELSE -1

\* the last block of `blocks` whose rect holds p: for (i = size-1; i >= 0; i--)
TopHit(blocks, p) ==
    IF \E i \in 1..Len(blocks) : PointInRect(p, blocks[i].rect)
    THEN (CHOOSE i \in 1..Len(blocks) :
              /\ PointInRect(p, blocks[i].rect)
              /\ \A j \in (i + 1)..Len(blocks) : ~PointInRect(p, blocks[j].rect)) - 1
    ELSE -1

\* part_000: the pill of a workspace block, as the mouse-down handler builds it
PillP(b) ==
    Rect(b.rect.x + b.rect.w - PW - 8, b.rect.y + DivT(b.rect.h - PH, 2), PW, PH)

\* main.cpp: the badge of a workspace block, as the mouse-down handler builds it
BadgeM(b) ==
    Rect(b.rect.x + b.rect.w - BADGE_INSET, b.rect.y + DivT(b.rect.h - BADGE_H, 2),
         BADGE_W, BADGE_H)

\* part_000: the first motion block whose pill holds p, -1 if none
BadgeHitP(ws, p) ==
    LET hit(i) == IsMotionP(ws[i].type) /\ PointInRect(p, PillP(ws[i])) IN
    IF \E i \in 1..Len(ws) : hit(i)
    THEN (CHOOSE i \in 1..Len(ws) : hit(i) /\ \A j \in 1..(i - 1) : ~hit(j)) - 1
    ELSE -1

\* main.cpp: the first motion block whose badge holds p, -1 if none
BadgeHitM(ws, p) ==
    LET hit(i) == IsMotionM(ws[i].type) /\ PointInRect(p, BadgeM(ws[i])) IN
    IF \E i \in 1..Len(ws) : hit(i)
    THEN (CHOOSE i \in 1..Len(ws) : hit(i) /\ \A j \in 1..(i - 1) : ~hit(j)) - 1
    ELSE -1

\* part_000: the value an Enter or a click elsewhere stores: 0 for "" and
\* "-", std::stoi otherwise, 0 when std::stoi throws
CommitValueP(buf) ==
    IF buf = <<"-">> \/ buf = <<>> THEN 0
    ELSE IF Stoi(buf).ok THEN Stoi(buf).val ELSE 0

\* part_000: the commit, guarded by editingIdx >= 0 && editingIdx < size
CommitEditP(ws, idx, buf) ==
    IF idx >= 0 /\ idx < Len(ws)
    THEN [ws EXCEPT ![idx + 1].steps = CommitValueP(buf)]
    ELSE ws

\* main.cpp: the Enter branch; "" and "-" store nothing, and neither does a
\* std::stoi that throws
CommitEditM(ws, idx, buf) ==
    IF buf # <<>> /\ buf # <<"-">> /\ Stoi(buf).ok
    THEN [ws EXCEPT ![idx + 1].steps = Stoi(buf).val]
    ELSE ws

\* an Escape branch that commits as the Enter branch does
CancelEditPCommits(ws, idx, buf) == CommitEditP(ws, idx, buf)

\* part_000: the Escape branch writes no block
CancelEditP(ws, idx, buf) == ws

\* main.cpp: the Escape branch writes no block
CancelEditM(ws, idx, buf) == ws

\* a text input that takes "-" at any place of the buffer
AcceptPAnyMinus(buf, ch) ==
    IF IsDigit(ch) \/ ch = "-" THEN Append(buf, ch) ELSE buf

\* part_000 SDL_TEXTINPUT: one character of the event's text
AcceptP(buf, ch) ==
    IF IsDigit(ch) THEN Append(buf, ch)
    ELSE IF ch = "-" /\ buf = <<>> THEN Append(buf, ch)
    ELSE buf

\* part_000 SDL_TEXTINPUT: for (char ch : std::string(e.text.text))
RECURSIVE TypeTextP(_, _, _)
TypeTextP(buf, text, i) ==
    IF i > Len(text) THEN buf ELSE TypeTextP(AcceptP(buf, text[i]), text, i + 1)

\* main.cpp SDL_TEXTINPUT: only text[0], and at most EDIT_MAX characters
TypeTextM(buf, text) ==
    LET ch == text[1] IN
    IF (IsDigit(ch) \/ (ch = "-" /\ buf = <<>>)) /\ Len(buf) < EDIT_MAX
    THEN Append(buf, ch)
    ELSE buf

\* std::string::pop_back on a non-empty buffer
PopBack(buf) == SubSeq(buf, 1, Len(buf) - 1)

\* the history of typed characters after one more text event
TypedAfter(text) ==
    IF typed = Untraced \/ Len(typed) + Len(text) > TraceLen THEN Untraced
    ELSE typed \o text

\* part_000: the insertion index of a drop at pointer y
InsertIdxP(ws, my) ==
    LET below(i) == my < ws[i].rect.y + DivT(ws[i].rect.h, 2) IN
    IF \E i \in 1..Len(ws) : below(i)
    THEN (CHOOSE i \in 1..Len(ws) : below(i) /\ \A j \in 1..(i - 1) : ~below(j)) - 1
    ELSE Len(ws)

\* ------------------------------------------------- part_000 event handlers
goBtnP == Rect(STAGE_X_P + 10, STAGE_Y + STAGE_H + 50, 90, 36)

stopBtn == Rect(STAGE_X_P + 110, STAGE_Y + STAGE_H + 50, 90, 36)

wsRectP == Rect(SCRIPTS_X, 0, SCRIPTS_W, WINDOW_H_P)

partDragV == <<dragging, dragBlock, dragOffX, dragOffY, dragFromPalette,
               dragWorkspaceIdx, dragOrigin, dragStart>>

partEditV == <<editingIdx, editingValue, inputBuffer, editSnapshot, typed, editEnd>>

\* The end of an edit session.  editingIdx and inputBuffer are read only
\* under editingValue, so the model clears what the code leaves behind.
EndEditP(how) ==
    /\ editingValue' = FALSE
    /\ editingIdx' = -1
    /\ inputBuffer' = <<>>
    /\ editEnd' = how
    /\ UNCHANGED <<editSnapshot, typed>>

\* a GO button that starts the script whether one runs or not
GoStartsAlways(r) == TRUE

\* part_000, the GO button: if (!scriptRunning) StartScript()
GoStarts(r) == ~r

\* part_000 SDL_MOUSEBUTTONDOWN, left button, at p
MouseDownP(p) ==
    /\ variant = "part"
    /\ UNCHANGED <<constV, spriteV, draggingIdx, dragOffset, editBuffer>>
    /\ IF PointInRect(p, goBtnP)
       THEN /\ IF GoStarts(scriptRunning) THEN StartScriptP ELSE UNCHANGED engineV
            /\ UNCHANGED <<workspace, partDragV, partEditV>>
       ELSE IF PointInRect(p, stopBtn)
       THEN /\ scriptRunning' = FALSE
            /\ UNCHANGED <<running, scriptStep, elapsed, highlightIdx, runs,
                           applied, startIndex>>
            /\ UNCHANGED <<workspace, partDragV, partEditV>>
       ELSE
         /\ UNCHANGED engineV
         /\ LET badge == BadgeHitP(workspace, p) IN
            IF badge >= 0
            THEN /\ editingValue' = TRUE
                 /\ editingIdx' = badge
                 /\ inputBuffer' = ToString(workspace[badge + 1].steps)
                 /\ editSnapshot' = workspace
                 /\ typed' = <<>>
                 /\ editEnd' = "none"
                 /\ UNCHANGED <<workspace, partDragV>>
            ELSE
              LET \* if (!clickedBadge && editingValue): commit
                  ws1 == IF editingValue
                         THEN CommitEditP(workspace, editingIdx, inputBuffer)
                         ELSE workspace
                  pal == FirstHit(palette, p)
                  \* if (!dragging), after the palette loop
                  top == IF dragging \/ pal >= 0 THEN -1 ELSE TopHit(ws1, p)
              IN
              /\ IF editingValue THEN EndEditP("click") ELSE UNCHANGED partEditV
              /\ IF pal >= 0
                 THEN /\ dragging' = TRUE
                      /\ dragFromPalette' = TRUE
                      /\ dragBlock' = palette[pal + 1]
                      /\ dragOffX' = p.x - palette[pal + 1].rect.x
                      /\ dragOffY' = p.y - palette[pal + 1].rect.y
                      /\ dragOrigin' = "palette"
                      /\ dragStart' = ws1
                      /\ workspace' = ws1
                      /\ UNCHANGED dragWorkspaceIdx
                 ELSE IF top >= 0
                 THEN /\ dragging' = TRUE
                      /\ dragFromPalette' = FALSE
                      /\ dragWorkspaceIdx' = top
                      /\ dragBlock' = ws1[top + 1]
                      /\ dragOffX' = p.x - ws1[top + 1].rect.x
                      /\ dragOffY' = p.y - ws1[top + 1].rect.y
                      /\ dragOrigin' = "workspace"
                      /\ dragStart' = ws1
                      /\ workspace' = LayoutWorkspace(EraseAt(ws1, top))
                 ELSE /\ workspace' = ws1
                      /\ UNCHANGED partDragV

\* part_000 SDL_MOUSEMOTION at p
MouseMotionP(p) ==
    /\ variant = "part"
    /\ UNCHANGED <<constV, workspace, editV, engineV, spriteV, draggingIdx, dragOffset,
                   dragging, dragOffX, dragOffY, dragFromPalette, dragWorkspaceIdx,
                   dragOrigin, dragStart>>
    /\ IF dragging
       THEN dragBlock' = [dragBlock EXCEPT !.rect.x = p.x - dragOffX,
                                           !.rect.y = p.y - dragOffY]
       ELSE UNCHANGED dragBlock

\* part_000 SDL_MOUSEBUTTONUP, left button, at p.  dragBlock, dragOffX,
\* dragOffY and dragFromPalette are read only under dragging, so the model
\* clears what the code leaves behind.
MouseUpP(p) ==
    /\ variant = "part"
    /\ UNCHANGED <<constV, editV, engineV, spriteV, draggingIdx, dragOffset>>
    /\ IF dragging
       THEN /\ workspace' =
                 LayoutWorkspace(
                     IF PointInRect(p, wsRectP)
                     THEN InsertAt(workspace, InsertIdxP(workspace, p.y), dragBlock)
                     ELSE workspace)
            /\ dragging' = FALSE
            /\ dragWorkspaceIdx' = -1
            /\ dragBlock' = ZeroBlock
            /\ dragOffX' = 0
            /\ dragOffY' = 0
            /\ dragFromPalette' = FALSE
            /\ dragOrigin' = "none"
            /\ dragStart' = <<>>
       ELSE UNCHANGED <<workspace, partDragV>>

\* part_000 SDL_TEXTINPUT with the event's text
TextInputP(text) ==
    /\ variant = "part"
    /\ UNCHANGED <<constV, workspace, dragV, engineV, spriteV, editingIdx, editBuffer,
                   editingValue, editSnapshot, editEnd>>
    /\ IF editingValue
       THEN /\ inputBuffer' = TypeTextP(inputBuffer, text, 1)
            /\ typed' = TypedAfter(text)
       ELSE UNCHANGED <<inputBuffer, typed>>

\* part_000 SDL_KEYDOWN with the key's name
KeyDownP(key) ==
    /\ variant = "part"
    /\ UNCHANGED <<constV, dragV, engineV, spriteV, editBuffer>>
    /\ IF ~editingValue
       THEN UNCHANGED <<workspace, partEditV>>
       ELSE IF key \in {"RETURN", "KP_ENTER"}
       THEN /\ workspace' = CommitEditP(workspace, editingIdx, inputBuffer)
            /\ EndEditP("enter")
       ELSE IF key = "ESCAPE"
       THEN /\ workspace' = CancelEditP(workspace, editingIdx, inputBuffer)
            /\ EndEditP("escape")
       ELSE IF key = "BACKSPACE" /\ inputBuffer # <<>>
       THEN /\ inputBuffer' = PopBack(inputBuffer)
            /\ typed' = Untraced
            /\ UNCHANGED <<workspace, editingIdx, editingValue, editSnapshot,
                           editEnd>>
       ELSE UNCHANGED <<workspace, partEditV>>

\* ------------------------------------------------- main.cpp event handlers
flagBtn == Rect(STAGE_X_M + 10, 10, 60, 30)

\* main.cpp Render: the workspace panel
wsRectM == Rect(WORKSPACE_X, 0, WORKSPACE_W, WINDOW_H_M)

mainDragV == <<draggingIdx, dragOffset, dragOrigin, dragStart>>

mainEditV == <<editingIdx, editBuffer, editSnapshot, typed, editEnd>>

\* editingIdx = -1; editBuffer.clear()
EndEditM(how) ==
    /\ editingIdx' = -1
    /\ editBuffer' = <<>>
    /\ editEnd' = how
    /\ UNCHANGED <<editSnapshot, typed>>

\* main.cpp: the palette copy a pointer-down at p pushes onto the workspace
PickedCopyM(b, p) ==
    [b EXCEPT !.rect.x = p.x - DivT(BLOCK_WIDTH, 2),
              !.rect.y = p.y - DivT(BLOCK_HEIGHT, 2)]

\* main.cpp SDL_MOUSEBUTTONDOWN, left button, at p
MouseDownM(p) ==
    /\ variant = "main"
    /\ UNCHANGED <<constV, spriteV, dragging, dragBlock, dragOffX, dragOffY,
                   dragFromPalette, dragWorkspaceIdx, editingValue, inputBuffer>>
    /\ IF PointInRect(p, flagBtn)
       THEN /\ IF editingIdx >= 0 THEN EndEditM("click") ELSE UNCHANGED mainEditV
            /\ StartScriptM
            /\ UNCHANGED <<workspace, mainDragV>>
       ELSE
         /\ UNCHANGED engineV
         /\ LET badge == BadgeHitM(workspace, p) IN
            IF badge >= 0
            THEN /\ editingIdx' = badge
                 /\ editBuffer' = ToString(workspace[badge + 1].steps)
                 /\ editSnapshot' = workspace
                 /\ typed' = <<>>
                 /\ editEnd' = "none"
                 /\ UNCHANGED <<workspace, mainDragV>>
            ELSE
              LET pal == FirstHit(palette, p)
                  \* if (draggingIdx == -1), after the palette loop
                  top == IF draggingIdx # -1 \/ pal >= 0 THEN -1
                         ELSE TopHit(workspace, p)
              IN
              /\ IF editingIdx >= 0 THEN EndEditM("click") ELSE UNCHANGED mainEditV
              /\ IF pal >= 0
                 THEN LET b == PickedCopyM(palette[pal + 1], p) IN
                      /\ workspace' = Append(workspace, b)
                      /\ draggingIdx' = Len(workspace')  - 1
                      /\ dragOffset' = Point(p.x - b.rect.x, p.y - b.rect.y)
                      /\ dragOrigin' = "palette"
                      /\ dragStart' = workspace
                 ELSE IF top >= 0
                 THEN /\ draggingIdx' = top
                      /\ dragOffset' = Point(p.x - workspace[top + 1].rect.x,
                                             p.y - workspace[top + 1].rect.y)
                      /\ dragOrigin' = "workspace"
                      /\ dragStart' = workspace
                      /\ UNCHANGED workspace
                 ELSE UNCHANGED <<workspace, mainDragV>>

\* main.cpp SDL_MOUSEMOTION at p
MouseMotionM(p) ==
    /\ variant = "main"
    /\ UNCHANGED <<constV, dragV, editV, engineV, spriteV>>
    /\ IF draggingIdx >= 0
       THEN workspace' = [workspace EXCEPT
                              ![draggingIdx + 1].rect.x = p.x - dragOffset.x,
                              ![draggingIdx + 1].rect.y = p.y - dragOffset.y]
       ELSE UNCHANGED workspace

\* main.cpp SDL_MOUSEBUTTONUP, left button, at p.  dragOffset is read only
\* while draggingIdx >= 0, so the model clears what the code leaves behind.
MouseUpM(p) ==
    /\ variant = "main"
    /\ UNCHANGED <<constV, engineV, spriteV, dragging, dragBlock, dragOffX, dragOffY,
                   dragFromPalette, dragWorkspaceIdx, editBuffer, editingValue,
                   inputBuffer, editSnapshot, typed, editEnd>>
    /\ IF draggingIdx >= 0
       THEN /\ workspace' = IF p.x < PALETTE_W
                            THEN EraseAt(workspace, draggingIdx)
                            ELSE workspace
            /\ editingIdx' = IF editingIdx >= draggingIdx /\ editingIdx > 0
                             THEN editingIdx - 1
                             ELSE editingIdx
            /\ draggingIdx' = -1
            /\ dragOffset' = Point(0, 0)
            /\ dragOrigin' = "none"
            /\ dragStart' = <<>>
       ELSE UNCHANGED <<workspace, editingIdx, mainDragV>>

\* main.cpp SDL_TEXTINPUT with the event's text
TextInputM(text) ==
    /\ variant = "main"
    /\ UNCHANGED <<constV, workspace, dragV, engineV, spriteV, editingIdx,
                   editingValue, inputBuffer, editSnapshot, editEnd>>
    /\ IF editingIdx >= 0
       THEN /\ editBuffer' = TypeTextM(editBuffer, text)
            /\ typed' = TypedAfter(text)
       ELSE UNCHANGED <<editBuffer, typed>>

\* main.cpp SDL_KEYDOWN with the key's name
KeyDownM(key) ==
    /\ variant = "main"
    /\ UNCHANGED <<constV, dragV, spriteV, editingValue, inputBuffer>>
    /\ IF editingIdx >= 0
       THEN /\ UNCHANGED engineV
            /\ IF key \in {"RETURN", "KP_ENTER"}
               THEN /\ workspace' = CommitEditM(workspace, editingIdx, editBuffer)
                    /\ EndEditM("enter")
               ELSE IF key = "ESCAPE"
               THEN /\ workspace' = CancelEditM(workspace, editingIdx, editBuffer)
                    /\ EndEditM("escape")
               ELSE IF key = "BACKSPACE" /\ editBuffer # <<>>
               THEN /\ editBuffer' = PopBack(editBuffer)
                    /\ typed' = Untraced
                    /\ UNCHANGED <<workspace, editingIdx, editSnapshot, editEnd>>
               ELSE UNCHANGED <<workspace, mainEditV>>
       ELSE /\ UNCHANGED <<workspace, mainEditV>>
            /\ IF key = "SPACE" THEN StartScriptM ELSE UNCHANGED engineV

\* a wheel that moves the sprite instead of changing a value
MouseWheelMovesSprite(dy, p) ==
    /\ variant = "main"
    /\ spriteY' = spriteY + (IF dy > 0 THEN WHEEL_STEP ELSE -WHEEL_STEP)
    /\ UNCHANGED <<constV, workspace, dragV, editV, engineV, spriteX, spriteVisible>>

\* main.cpp SDL_MOUSEWHEEL with wheel.y = dy, the pointer (SDL_GetMouseState)
\* at p
MouseWheelM(dy, p) ==
    /\ variant = "main"
    /\ UNCHANGED <<constV, dragV, editV, engineV, spriteV>>
    /\ IF editingIdx = -1
       THEN workspace' =
                [i \in 1..Len(workspace) |->
                    IF IsMotionM(workspace[i].type) /\ PointInRect(p, workspace[i].rect)
                    THEN [workspace[i] EXCEPT
                              !.steps = @ + (IF dy > 0 THEN WHEEL_STEP ELSE -WHEEL_STEP)]
                    ELSE workspace[i]]
       ELSE UNCHANGED workspace

\* ----------------------------------------------------------- the inputs
\* Pointer positions of part_000: on three palette blocks, in the scripts
\* area (above the first row, on row 0, on row 1, below every row), on the
\* stage, on the two buttons, and left of the palette blocks.
PalFlagP == Point(100, 90)
PalChangeXP == Point(100, 190)
PalHideP == Point(100, 480)
TopP == Point(300, 50)
Row0P == Point(300, 85)
Row1P == Point(300, 140)
BottomP == Point(300, 700)
StageP == Point(800, 100)
GoP == Point(770, 480)
StopP == Point(870, 480)
SideP == Point(10, 600)

DragPointsP ==
    {PalFlagP, PalChangeXP, PalHideP, TopP, Row0P, Row1P, BottomP, StageP, GoP,
     StopP, SideP}

\* where the model moves the pointer to during a drag
MovePointsP == {TopP, Row0P, BottomP, StageP}

\* Pointer positions of main.cpp: on two palette blocks, at two places of
\* the workspace area, on the stage, on the flag button, and left of the
\* palette blocks.
PalFlagM == Point(100, 29)
PalMoveXM == Point(150, 85)
UpperM == Point(400, 100)
LowerM == Point(400, 300)
StageM == Point(800, 300)
FlagM == Point(720, 20)
SideM == Point(10, 600)

DragPointsM ==
    {PalFlagM, PalMoveXM, UpperM, LowerM, StageM, FlagM, SideM}

\* where the model moves the pointer to during a drag
MovePointsM == {UpperM, LowerM, StageM, SideM}

\* a drag is in progress
Dragging == IF variant = "main" THEN draggingIdx >= 0 ELSE dragging

\* where the pointer is during a drag: the floating block follows it
DragPointer ==
    IF variant = "main"
    THEN Point(workspace[draggingIdx + 1].rect.x + dragOffset.x,
               workspace[draggingIdx + 1].rect.y + dragOffset.y)
    ELSE Point(dragBlock.rect.x + dragOffX, dragBlock.rect.y + dragOffY)

\* The release that ends a drag comes from where the pointer was moved to.
PointerAt(p) == Dragging => p = DragPointer

\* The model picks a palette block up only while the workspace has room.
PickAllowed(p) == FirstHit(palette, p) >= 0 => Len(workspace) < MaxLen

\* The model presses a start button at most MaxRuns times.
StartAllowed(p) ==
    (PointInRect(p, goBtnP) \/ PointInRect(p, flagBtn)) => runs < MaxRuns

\* The left button goes down only while it is up, so not during a drag.
MouseDownOK(p) == ~Dragging /\ PickAllowed(p) /\ StartAllowed(p)

\* --------------------------------------------- the editor with the engine
\* Dragging and running, from the program's start: every pointer event at
\* the drag points, the Space key, the engine's tick and the clock.
Next ==
    \/ \E p \in DragPointsP : MouseDownOK(p) /\ MouseDownP(p)
    \/ \E p \in MovePointsP : MouseMotionP(p)
    \/ \E p \in DragPointsP : PointerAt(p) /\ MouseUpP(p)
    \/ \E p \in DragPointsM : MouseDownOK(p) /\ MouseDownM(p)
    \/ \E p \in MovePointsM : MouseMotionM(p)
    \/ \E p \in DragPointsM : PointerAt(p) /\ MouseUpM(p)
    \/ runs < MaxRuns /\ KeyDownM("SPACE")
    \/ UpdateScriptP
    \/ UpdateScriptM
    \/ AdvanceTime

Spec == Init /\ [][Next]_vars

\* ------------------------------------------------- the engine on scripts
\* The engine alone, on a workspace the editor has built before: the start
\* buttons, the Space key, STOP, the tick and the clock.  No event of this
\* specification writes the workspace.
MaxStarts == 2

\* the values the motion blocks of the scripts carry
ScriptValues == {20, -180, 100000}

\* the palette block of a type
PaletteBlock(pal, type) == pal[CHOOSE i \in 1..Len(pal) : pal[i].type = type]

\* the blocks a script is made of: every palette type, the motion types with
\* every script value
ScriptBlocksP ==
    LET pal == BuildPaletteP(<<>>) IN
    {[pal[i] EXCEPT !.steps = v] :
        i \in {j \in 1..Len(pal) : IsMotionP(pal[j].type)}, v \in ScriptValues}
    \cup {pal[i] : i \in {j \in 1..Len(pal) : ~IsMotionP(pal[j].type)}}

ScriptBlocksM ==
    LET pal == BuildPaletteM(<<>>) IN
    {[pal[i] EXCEPT !.steps = v] :
        i \in {j \in 1..Len(pal) : IsMotionM(pal[j].type)}, v \in ScriptValues}
    \cup {pal[i] : i \in {j \in 1..Len(pal) : ~IsMotionM(pal[j].type)}}

\* every sequence of at most n blocks of B
SeqsUpTo(B, n) == UNION {[1..k -> B] : k \in 0..n}

\* main.cpp: the blocks of a script where drops one below the other put them
StackM(ws) ==
    [i \in 1..Len(ws) |->
        [ws[i] EXCEPT !.rect.x = WORKSPACE_X + 115,
                      !.rect.y = 81 + (i - 1) * (BLOCK_HEIGHT + BLOCK_GAP_M)]]

\* Scenario A of the specification: [ScriptStart, ChangeX(+10), ChangeY(+5)]
ScenarioAP ==
    LET pal == BuildPaletteP(<<>>) IN
    <<PaletteBlock(pal, "EVENT_FLAG"),
      [PaletteBlock(pal, "CHANGE_X") EXCEPT !.steps = 10],
      [PaletteBlock(pal, "CHANGE_Y") EXCEPT !.steps = 5]>>

ScenarioAM ==
    LET pal == BuildPaletteM(<<>>) IN
    <<PaletteBlock(pal, "EVENT_FLAG"),
      [PaletteBlock(pal, "MOVE_X") EXCEPT !.steps = 10],
      [PaletteBlock(pal, "MOVE_Y") EXCEPT !.steps = 5]>>

EngineScriptsP ==
    {LayoutWorkspace(ws) : ws \in SeqsUpTo(ScriptBlocksP, MaxScript) \cup {ScenarioAP}}

EngineScriptsM ==
    {StackM(ws) : ws \in SeqsUpTo(ScriptBlocksM, MaxScript) \cup {ScenarioAM}}

InitEngine ==
    \/ \E ws \in EngineScriptsP : InitOf("part", ws)
    \/ \E ws \in EngineScriptsM : InitOf("main", ws)

NextEngine ==
    \/ runs < MaxStarts /\ MouseDownP(GoP)
    \/ MouseDownP(StopP)
    \/ runs < MaxStarts /\ MouseDownM(FlagM)
    \/ runs < MaxStarts /\ KeyDownM("SPACE")
    \/ UpdateScriptP
    \/ UpdateScriptM
    \/ AdvanceTime

\* The main loop calls UpdateScript() once per frame and the clock moves on
\* between frames, for as long as the program runs.
SpecEngine ==
    /\ InitEngine
    /\ [][NextEngine]_vars
    /\ WF_vars(UpdateScriptP)
    /\ WF_vars(UpdateScriptM)
    /\ WF_vars(AdvanceTime)

\* ------------------------------------------------------ the value editor
\* Edit sessions, on a workspace the editor has built before: pointer-downs on
\* the badges, on the block bodies, on the buttons, on a palette block and on
\* the stage, the release that ends a drag, text input and the editing keys.
\* the values the motion blocks carry when a session opens
EditValues == {7, -3}

\* the characters the text-input events bring, one per event
EditChars == {"-", "1", "2", "4", "5", "a"}

EditKeys == {"RETURN", "KP_ENTER", "ESCAPE", "BACKSPACE"}

EditScriptsP ==
    LET pal    == BuildPaletteP(<<>>)
        flag   == PaletteBlock(pal, "EVENT_FLAG")
        cx(v)  == [PaletteBlock(pal, "CHANGE_X") EXCEPT !.steps = v]
        sy(v)  == [PaletteBlock(pal, "SET_Y") EXCEPT !.steps = v]
    IN  {LayoutWorkspace(<<flag, cx(v)>>) : v \in EditValues}
        \cup {LayoutWorkspace(<<cx(v), sy(w)>>) : v \in EditValues, w \in EditValues}
        \cup {LayoutWorkspace(<<cx(v)>>) : v \in EditValues}

EditScriptsM ==
    LET pal    == BuildPaletteM(<<>>)
        flag   == PaletteBlock(pal, "EVENT_FLAG")
        mx(v)  == [PaletteBlock(pal, "MOVE_X") EXCEPT !.steps = v]
        my(v)  == [PaletteBlock(pal, "MOVE_Y") EXCEPT !.steps = v]
    IN  {StackM(<<flag, mx(v)>>) : v \in EditValues}
        \cup {StackM(<<mx(v), my(w)>>) : v \in EditValues, w \in EditValues}
        \cup {StackM(<<mx(v)>>) : v \in EditValues}

\* an edit session is open, and its buffer
Editing == IF variant = "main" THEN editingIdx >= 0 ELSE editingValue

EditBuf == IF variant = "main" THEN editBuffer ELSE inputBuffer

\* the middle of a block's value badge
BadgeCentreP(b) ==
    LET r == PillP(b) IN Point(r.x + DivT(r.w, 2), r.y + DivT(r.h, 2))

BadgeCentreM(b) ==
    LET r == BadgeM(b) IN Point(r.x + DivT(r.w, 2), r.y + DivT(r.h, 2))

\* The model presses the pointer on the workspaces the scripts above give,
\* and types while the buffer is shorter than MaxBuf.
SessionAllowed == workspace \in EditScriptsP \cup EditScriptsM

BufRoom == Len(EditBuf) < MaxBuf

\* a point of a block's body, left of its value badge
BodyPoint(b) == Point(b.rect.x + 10, b.rect.y + 10)

\* pointer-downs elsewhere: the stage, the buttons, a palette block
ElsewhereP == {StageP, GoP, StopP, PalChangeXP}

ElsewhereM == {StageM, FlagM, PalMoveXM}

InitEdit ==
    \/ \E ws \in EditScriptsP : InitOf("part", ws)
    \/ \E ws \in EditScriptsM : InitOf("main", ws)

NextEdit ==
    \/ \E i \in 1..Len(workspace) :
           /\ SessionAllowed
           /\ ~Dragging
           /\ IsMotionP(workspace[i].type)
           /\ MouseDownP(BadgeCentreP(workspace[i]))
    \/ \E i \in 1..Len(workspace) :
           SessionAllowed /\ ~Dragging /\ MouseDownP(BodyPoint(workspace[i]))
    \/ \E p \in ElsewhereP : SessionAllowed /\ MouseDownOK(p) /\ MouseDownP(p)
    \/ Dragging /\ variant = "part" /\ MouseUpP(DragPointer)
    \/ \E ch \in EditChars : BufRoom /\ TextInputP(<<ch>>)
    \/ \E key \in EditKeys : KeyDownP(key)
    \/ \E i \in 1..Len(workspace) :
           /\ SessionAllowed
           /\ ~Dragging
           /\ IsMotionM(workspace[i].type)
           /\ MouseDownM(BadgeCentreM(workspace[i]))
    \/ \E i \in 1..Len(workspace) :
           SessionAllowed /\ ~Dragging /\ MouseDownM(BodyPoint(workspace[i]))
    \/ \E p \in ElsewhereM : SessionAllowed /\ MouseDownOK(p) /\ MouseDownM(p)
    \/ Dragging /\ variant = "main" /\ MouseUpM(DragPointer)
    \/ \E ch \in EditChars : BufRoom /\ TextInputM(<<ch>>)
    \/ \E key \in EditKeys : KeyDownM(key)

SpecEdit == InitEdit /\ [][NextEdit]_vars

\* ------------------------------------------------------- every event
\* Every kind of event the two loops handle, with the engine: the pointer
\* (down, move, up), text input, the keys, the wheel of main.cpp, the tick and
\* the clock, on one script per variant.
AllScriptsP ==
    LET pal == BuildPaletteP(<<>>) IN
    {LayoutWorkspace(<<PaletteBlock(pal, "EVENT_FLAG"),
                       [PaletteBlock(pal, "CHANGE_X") EXCEPT !.steps = 7]>>)}

AllScriptsM ==
    LET pal == BuildPaletteM(<<>>) IN
    {StackM(<<PaletteBlock(pal, "EVENT_FLAG"),
              [PaletteBlock(pal, "MOVE_X") EXCEPT !.steps = 7]>>)}

AllChars == {"-", "1"}

AllKeys == EditKeys \cup {"SPACE"}

\* The model opens a session and turns the wheel on the scripts above.
Untouched == workspace \in AllScriptsP \cup AllScriptsM

InitAll ==
    \/ \E ws \in AllScriptsP : InitOf("part", ws)
    \/ \E ws \in AllScriptsM : InitOf("main", ws)

NextAll ==
    \/ \E i \in 1..Len(workspace) :
           /\ Untouched
           /\ ~Dragging
           /\ IsMotionP(workspace[i].type)
           /\ MouseDownP(BadgeCentreP(workspace[i]))
    \/ \E i \in 1..Len(workspace) :
           ~Dragging /\ MouseDownP(BodyPoint(workspace[i]))
    \/ \E p \in ElsewhereP : MouseDownOK(p) /\ MouseDownP(p)
    \/ MouseMotionP(StageP)
    \/ Dragging /\ variant = "part" /\ MouseUpP(DragPointer)
    \/ \E ch \in AllChars : BufRoom /\ TextInputP(<<ch>>)
    \/ \E key \in AllKeys : KeyDownP(key)
    \/ UpdateScriptP
    \/ \E i \in 1..Len(workspace) :
           /\ Untouched
           /\ ~Dragging
           /\ IsMotionM(workspace[i].type)
           /\ MouseDownM(BadgeCentreM(workspace[i]))
    \/ \E i \in 1..Len(workspace) :
           ~Dragging /\ MouseDownM(BodyPoint(workspace[i]))
    \/ \E p \in ElsewhereM : MouseDownOK(p) /\ MouseDownM(p)
    \/ MouseMotionM(SideM)
    \/ Dragging /\ variant = "main" /\ MouseUpM(DragPointer)
    \/ \E ch \in AllChars : BufRoom /\ TextInputM(<<ch>>)
    \/ \E key \in AllKeys : (key = "SPACE" => runs < MaxRuns) /\ KeyDownM(key)
    \/ \E dy \in {-1, 1}, i \in 1..Len(workspace) :
           Untouched /\ MouseWheelM(dy, BodyPoint(workspace[i]))
    \/ UpdateScriptM
    \/ AdvanceTime

SpecAll == InitAll /\ [][NextAll]_vars

\* ------------------------------------------------- building the palette
\* BuildPalette() called again after main() has called it, with the pointer
\* events that read the palette; in main.cpp the pointer also stops just right
\* of the palette panel, where the block it carries lies over a palette block.
\* BuildPalette() is called at most MaxBuilds times more
MaxBuilds == 1

\* the catalog one call of BuildPalette() gives from nothing
Catalog == IF variant = "main" THEN BuildPaletteM(<<>>) ELSE BuildPaletteP(<<>>)

\* main.cpp: a pointer position in the workspace area whose floating block,
\* picked up at PalMoveXM, covers PalMoveXM
EdgeM == Point(210, 85)

BuildPaletteCall ==
    /\ Len(palette) < (MaxBuilds + 1) * Len(Catalog)
    /\ palette' = IF variant = "main"
                  THEN BuildPaletteM(palette)
                  ELSE BuildPaletteP(palette)
    /\ UNCHANGED <<variant, workspace, dragV, editV, engineV, spriteV>>

NextPalette ==
    \/ BuildPaletteCall
    \/ \E p \in DragPointsP : MouseDownOK(p) /\ MouseDownP(p)
    \/ \E p \in MovePointsP : MouseMotionP(p)
    \/ \E p \in DragPointsP : PointerAt(p) /\ MouseUpP(p)
    \/ \E p \in DragPointsM : MouseDownOK(p) /\ MouseDownM(p)
    \/ \E p \in MovePointsM \cup {EdgeM} : MouseMotionM(p)
    \/ \E p \in DragPointsM \cup {EdgeM} : PointerAt(p) /\ MouseUpM(p)

SpecPalette == Init /\ [][NextPalette]_vars

\* ---------------------------------------------------------- long input
\* part_000 with text-input events that bring many characters at once (its
\* loop takes every character of the event's text, and its buffer has no
\* limit): a session, one or two events, Enter or Escape.
LongValues == {2, -2}

\* "147483647", "147483648" and "147483649": after a "2" or a "-2" they give
\* INT_MAX, INT_MAX + 1 = -INT_MIN, and -INT_MIN + 1
LongTexts ==
    {<<"1", "4", "7", "4", "8", "3", "6", "4", d>> : d \in {"7", "8", "9"}}
    \cup {<<"1">>, <<"0">>}

LongScripts ==
    LET pal    == BuildPaletteP(<<>>)
        cx(v)  == [PaletteBlock(pal, "CHANGE_X") EXCEPT !.steps = v]
        sy(v)  == [PaletteBlock(pal, "SET_Y") EXCEPT !.steps = v]
    IN  {LayoutWorkspace(<<cx(v), sy(w)>>) : v \in LongValues, w \in LongValues}

InitLong == \E ws \in LongScripts : InitOf("part", ws)

NextLong ==
    \/ \E i \in 1..Len(workspace) :
           /\ workspace \in LongScripts
           /\ MouseDownP(BadgeCentreP(workspace[i]))
    \/ \E text \in LongTexts : BufRoom /\ TextInputP(text)
    \/ \E key \in {"RETURN", "KP_ENTER", "ESCAPE"} : KeyDownP(key)

SpecLong == InitLong /\ [][NextLong]_vars

\* ------------------------------------------- a pointer-down during a drag
\* Sessions and drags together: the pointer picks a block up (from the
\* workspace or the palette), carries it over a value badge or elsewhere, and
\* the button goes down a second time where the pointer is, before the
\* pointer-up; with text input, Enter and Escape.
OverChars == {"1"}

OverKeys == {"RETURN", "ESCAPE"}

NextOver ==
    \/ \E i \in 1..Len(workspace) :
           /\ SessionAllowed
           /\ ~Dragging
           /\ IsMotionP(workspace[i].type)
           /\ MouseDownP(BadgeCentreP(workspace[i]))
    \/ \E i \in 1..Len(workspace) :
           SessionAllowed /\ ~Dragging /\ MouseDownP(BodyPoint(workspace[i]))
    \/ SessionAllowed /\ MouseDownOK(PalFlagP) /\ MouseDownP(PalFlagP)
    \/ \E i \in 1..Len(workspace) :
           Dragging /\ MouseMotionP(BadgeCentreP(workspace[i]))
    \/ \E p \in {TopP, StageP} : Dragging /\ MouseMotionP(p)
    \/ Dragging /\ variant = "part" /\ PickAllowed(DragPointer) /\ MouseDownP(DragPointer)
    \/ Dragging /\ variant = "part" /\ MouseUpP(DragPointer)
    \/ \E ch \in OverChars : BufRoom /\ TextInputP(<<ch>>)
    \/ \E key \in OverKeys : KeyDownP(key)
    \/ \E i \in 1..Len(workspace) :
           /\ SessionAllowed
           /\ ~Dragging
           /\ IsMotionM(workspace[i].type)
           /\ MouseDownM(BadgeCentreM(workspace[i]))
    \/ \E i \in 1..Len(workspace) :
           SessionAllowed /\ ~Dragging /\ MouseDownM(BodyPoint(workspace[i]))
    \/ SessionAllowed /\ MouseDownOK(PalFlagM) /\ MouseDownM(PalFlagM)
    \/ \E i \in 1..Len(workspace) :
           Dragging /\ i # draggingIdx + 1 /\ MouseMotionM(BadgeCentreM(workspace[i]))
    \/ \E p \in {LowerM, SideM} : Dragging /\ MouseMotionM(p)
    \/ Dragging /\ variant = "main" /\ PickAllowed(DragPointer) /\ MouseDownM(DragPointer)
    \/ Dragging /\ variant = "main" /\ MouseUpM(DragPointer)
    \/ \E ch \in OverChars : BufRoom /\ TextInputM(<<ch>>)
    \/ \E key \in OverKeys : KeyDownM(key)

SpecOver == InitEdit /\ [][NextOver]_vars

\* ------------------------------------------- what the properties speak of
\* a script is running
Running == IF variant = "main" THEN running ELSE scriptRunning

\* the kind and the value of every block, in sequence order
Kinds(ws) == [i \in 1..Len(ws) |-> <<ws[i].type, ws[i].steps>>]

\* the workspace panel of the running variant
WorkspaceRegion == IF variant = "main" THEN wsRectM ELSE wsRectP

\* the pointer-up that ends a drag, at p
ReleaseAt(p) == Dragging /\ PointerAt(p) /\ (MouseUpP(p) \/ MouseUpM(p))

\* the index (0-based) of the block the pointer-down of the drag picked up
PickedIdx == IF variant = "main" THEN draggingIdx ELSE dragWorkspaceIdx

\* the floating block and the blocks that lie in the workspace during a drag
Floating == IF variant = "main" THEN workspace[draggingIdx + 1] ELSE dragBlock

Resting == IF variant = "main" THEN EraseAt(workspace, draggingIdx) ELSE workspace

\* the smallest index whose block has its vertical middle below y, the
\* length if there is none
FirstBelow(ws, y) ==
    LET S == {i \in 1..Len(ws) : y < ws[i].rect.y + DivT(ws[i].rect.h, 2)} IN
    IF S = {} THEN Len(ws) ELSE (CHOOSE i \in S : \A j \in S : i <= j) - 1

\* a call of UpdateScript(), and one that applies a block
Tick == UpdateScriptP \/ UpdateScriptM

GatedTick == Tick /\ applied' = applied + 1

\* ---------------------------------------------------------------- C1
\* C1: in every reachable state of both variants, also after blocks were
\* dragged out of the workspace during a run, a running script has
\* 0 <= scriptStep <= len(workspace).
C1_RunningStepInRange ==
    Running => (0 <= scriptStep /\ scriptStep <= Len(workspace))

\* ---------------------------------------------------------------- C2
\* C2: with the workspace (length N) left alone after the start, ticks that
\* keep coming and a clock that keeps advancing, a run reaches running = false;
\* the tick that ends it finds exactly N - startIndex blocks applied, never
\* more than N are, and a tick of a stopped script applies nothing.
C2_RunTerminates ==
    /\ Running ~> ~Running
    /\ [](applied <= Len(workspace))
    /\ [][(Tick /\ Running /\ ~Running')
              => applied' = Len(workspace) - startIndex]_vars
    /\ [][(Tick /\ ~Running)
              => (applied' = applied /\ spriteV' = spriteV /\ ~Running')]_vars

\* a run of two blocks or more has ended by itself
C2_Witness ==
    /\ ~Running
    /\ startIndex >= 0
    /\ applied >= 2
    /\ applied = Len(workspace) - startIndex
    /\ scriptStep = Len(workspace)

\* ---------------------------------------------------------------- C3
\* C3: the tick that applies the last block, taking scriptStep to
\* len(workspace), leaves running = false when it returns.
C3_LastTickStops ==
    [][(GatedTick /\ scriptStep' = Len(workspace)) => ~Running']_vars

\* ---------------------------------------------------------------- C4
\* the effect table as the claim states it
C4_Table(b, sp) ==
    IF variant = "part"
    THEN CASE b.type = "CHANGE_X"   -> Sprite(sp.x + b.steps, sp.y, sp.visible)
           [] b.type = "CHANGE_Y"   -> Sprite(sp.x, sp.y - b.steps, sp.visible)
           [] b.type = "SET_X"      -> Sprite(200 + b.steps, sp.y, sp.visible)
           [] b.type = "SET_Y"      -> Sprite(sp.x, 200 - b.steps, sp.visible)
           [] b.type = "LOOKS_SHOW" -> Sprite(sp.x, sp.y, TRUE)
           [] b.type = "LOOKS_HIDE" -> Sprite(sp.x, sp.y, FALSE)
           [] b.type = "EVENT_FLAG" -> sp
    ELSE CASE b.type = "MOVE_X"     -> Sprite(sp.x + b.steps, sp.y, sp.visible)
           [] b.type = "MOVE_Y"     -> Sprite(sp.x, sp.y + b.steps, sp.visible)
           [] b.type = "LOOKS_SHOW" -> Sprite(sp.x, sp.y, TRUE)
           [] b.type = "LOOKS_HIDE" -> Sprite(sp.x, sp.y, FALSE)
           [] b.type = "EVENT_FLAG" -> sp

\* C4: a gated tick on the block at scriptStep changes the sprite as the
\* effect table says (part_000 then clamps x and y to the stage) and leaves
\* the other components alone; [SetX(+20)] gives x = 220 after one gated tick.
C4_EffectTable ==
    /\ [][GatedTick =>
             LET ex == C4_Table(workspace[scriptStep + 1],
                                Sprite(spriteX, spriteY, spriteVisible))
             IN  /\ spriteVisible' = ex.visible
                 /\ IF variant = "part"
                    THEN /\ spriteX' = ClampP(ex.x, STAGE_W_P)
                         /\ spriteY' = ClampP(ex.y, STAGE_H)
                    ELSE /\ spriteX' = ex.x
                         /\ spriteY' = ex.y]_vars
    /\ []((/\ variant = "part"
           /\ Kinds(workspace) = <<(<<"SET_X", 20>>)>>
           /\ applied = 1) => spriteX = 220)

\* [SetX(+20)] after its gated tick
C4_Witness ==
    /\ variant = "part"
    /\ Kinds(workspace) = <<(<<"SET_X", 20>>)>>
    /\ applied = 1
    /\ spriteX = 220
    /\ ~Running

\* ---------------------------------------------------------------- C5
\* C5: whenever no drag is active, the display Y of the workspace blocks
\* strictly increases with the sequence index.
C5_DisplayOrderIsSequenceOrder ==
    ~Dragging =>
        \A i, j \in 1..Len(workspace) :
            i < j => workspace[i].rect.y < workspace[j].rect.y

\* ---------------------------------------------------------------- C6
\* C6: a drag that picked up a workspace block and releases the pointer
\* outside the workspace region leaves the workspace one block shorter than
\* before the pick-up: the dragged block is gone, the others keep their order.
C6_DragOutRemovesBlock ==
    [][\A p \in DragPointsP \cup DragPointsM :
           (/\ ReleaseAt(p)
            /\ dragOrigin = "workspace"
            /\ ~PointInRect(p, WorkspaceRegion))
           => /\ Len(workspace') = Len(dragStart) - 1
              /\ Kinds(workspace') = Kinds(EraseAt(dragStart, PickedIdx))]_vars

\* ---------------------------------------------------------------- C7
\* C7: a pointer-up inside the workspace region at pointer Y inserts the
\* floating block at the smallest index whose block has Y < rect.y + rect.h/2,
\* at the end if there is none.
C7_DropInsertsAtFirstBelow ==
    [][\A p \in DragPointsP \cup DragPointsM :
           (ReleaseAt(p) /\ PointInRect(p, WorkspaceRegion))
           => Kinds(workspace') =
                  Kinds(InsertAt(Resting, FirstBelow(Resting, p.y), Floating))]_vars

\* the Enter key ends the session, and the Escape key does
EnterPressed ==
    Editing /\ \E key \in {"RETURN", "KP_ENTER"} : KeyDownP(key) \/ KeyDownM(key)

EscapePressed == Editing /\ (KeyDownP("ESCAPE") \/ KeyDownM("ESCAPE"))

\* the session began on a block of value 7 and "1", "5" were typed since
TypedOneFiveOnSeven ==
    /\ Editing
    /\ editSnapshot[editingIdx + 1].steps = 7
    /\ typed = <<"1", "5">>

\* ---------------------------------------------------------------- C8
\* C8: Enter sets the target block's value to 0 when the buffer is empty or
\* a lone "-", to -15 when it is "-15" and to 42 when it is "42", whatever the
\* value was before.
C8_EnterCommitsBuffer ==
    [][EnterPressed =>
          LET v == workspace'[editingIdx + 1].steps IN
          /\ EditBuf \in {<<>>, <<"-">>} => v = 0
          /\ EditBuf = <<"-", "1", "5">> => v = -15
          /\ EditBuf = <<"4", "2">> => v = 42]_vars

\* ---------------------------------------------------------------- C9
\* C9 as stated: a session on a block of value 7 in which "1" and "5" are
\* typed has the buffer "15", and Enter then sets the value to 15.
C9_TypingReplacesValue ==
    /\ [](TypedOneFiveOnSeven => EditBuf = <<"1", "5">>)
    /\ [][(TypedOneFiveOnSeven /\ EnterPressed)
             => workspace'[editingIdx + 1].steps = 15]_vars

\* C9 as amended: the session opens with the buffer "7", so typing "1" and
\* "5" gives the buffer "715", and Enter then sets the value to 715.
C9_TypingAppendsToValue ==
    /\ [](TypedOneFiveOnSeven => EditBuf = <<"7", "1", "5">>)
    /\ [][(TypedOneFiveOnSeven /\ EnterPressed)
             => workspace'[editingIdx + 1].steps = 715]_vars

\* Enter after "1", "5" on a block of value 7
C9_Witness ==
    /\ editEnd = "enter"
    /\ typed = <<"1", "5">>
    /\ \E i \in 1..Len(workspace) :
           editSnapshot[i].steps = 7 /\ workspace[i].steps = 715

\* ---------------------------------------------------------------- C10
\* C10: Escape ends the session and leaves the workspace as the session
\* found it: the target's value, every other block, the order and the length.
C10_EscapeKeepsWorkspace ==
    [][EscapePressed =>
          /\ ~Editing'
          /\ workspace' = editSnapshot
          /\ workspace' = workspace]_vars

\* Escape after typing and deleting
C10_Witness ==
    /\ editEnd = "escape"
    /\ typed = Untraced
    /\ ~Editing
    /\ workspace = editSnapshot

\* the pointer positions of the edit specification's pointer-downs
EditPoints ==
    ElsewhereP \cup ElsewhereM
    \cup {BodyPoint(workspace[i]) : i \in 1..Len(workspace)}
    \cup {BadgeCentreP(workspace[i]) : i \in 1..Len(workspace)}
    \cup {BadgeCentreM(workspace[i]) : i \in 1..Len(workspace)}

\* a pointer-down at p
PointerDown(p) == MouseDownP(p) \/ MouseDownM(p)

\* p lies on the badge of the block the open session edits
OnEditedBadge(p) ==
    IF variant = "main"
    THEN PointInRect(p, BadgeM(workspace[editingIdx + 1]))
    ELSE PointInRect(p, PillP(workspace[editingIdx + 1]))

\* the value the Enter key would store into the edited block
EnterValue ==
    IF variant = "main"
    THEN CommitEditM(workspace, editingIdx, editBuffer)[editingIdx + 1].steps
    ELSE CommitEditP(workspace, editingIdx, inputBuffer)[editingIdx + 1].steps

\* the sequence after a pointer-down, the block a pick-up takes included
AfterDown == IF Dragging' THEN dragStart' ELSE workspace'

\* the session on the block edited before the step is over after it
SessionOver == ~(Editing' /\ editingIdx' = editingIdx)

\* C11: while a session is open, every pointer-down that does not hit the
\* badge being edited (another badge, a button, a block body, a palette
\* block, empty space) stores the buffer into the edited block as Enter
\* would, and ends the session on that block.
C11_ClickElsewhereCommits ==
    [][\A p \in EditPoints :
           (Editing /\ ~OnEditedBadge(p) /\ PointerDown(p))
           => /\ SessionOver
              /\ AfterDown[editingIdx + 1].steps = EnterValue]_vars

\* C12: a pointer-down that starts a drag while a session is open ends the
\* session, and the edited block keeps the value it had when the session
\* began; drag and edit are not both active afterwards.
C12_DragCancelsEdit ==
    [][(Editing /\ ~Dragging /\ Dragging')
       => /\ ~Editing'
          /\ AfterDown[editingIdx + 1].steps
                 = editSnapshot[editingIdx + 1].steps]_vars

\* start() is called: the GO button of part_000 while no script runs, the
\* flag button of main.cpp, the Space key of main.cpp outside a session
StartCalled ==
    \/ ~scriptRunning /\ MouseDownP(GoP)
    \/ MouseDownM(FlagM)
    \/ ~Editing /\ KeyDownM("SPACE")

\* C13: start(), called while no script runs, sets running = true whatever
\* the workspace holds: with a trigger block, without one, or nothing at all.
C13_StartSetsRunning ==
    [][(~Running /\ StartCalled) => Running']_vars

\* C14: in part_000 a click on STOP clears scriptRunning whatever the state
\* is and leaves scriptStep, the sprite and the workspace as they are; the
\* next start() sets scriptStep to 1 if slot 0 holds the trigger block and to
\* 0 otherwise, whatever scriptStep was.
C14_StopKeepsStepStartResets ==
    [][/\ MouseDownP(StopP)
          => /\ ~scriptRunning'
             /\ UNCHANGED <<scriptStep, spriteV, workspace>>
       /\ (~scriptRunning /\ MouseDownP(GoP))
          => scriptStep' = IF workspace # <<>> /\ workspace[1].type = "EVENT_FLAG"
                           THEN 1
                           ELSE 0]_vars

\* part_000 stopped in the middle of a run, one block applied, one left
C14_Witness ==
    /\ variant = "part"
    /\ ~scriptRunning
    /\ applied = 1
    /\ scriptStep = 1
    /\ Len(workspace) = 2

\* C15: a tick while a script runs, scriptStep is below the workspace's
\* length and fewer than 400 time units have passed since lastStepTime
\* changes nothing; so a block is applied only when at least 400 time units
\* have passed since the start() or the applied step before it.
C15_GateHoldsTicks ==
    [][/\ (Running /\ scriptStep < Len(workspace) /\ elapsed < 400 /\ Tick)
          => UNCHANGED vars
       /\ GatedTick => elapsed >= 400]_vars

\* a script waits at the closed gate between its first and its second block
C15_Witness ==
    /\ Running
    /\ applied = 1
    /\ scriptStep < Len(workspace)
    /\ elapsed > 0
    /\ elapsed < 400

\* the height of a laid-out block, and the y the layout has reached before
\* the i-th block (1-based), from the isHat flags of the blocks before it
LaidHeight(b) == IF b.isHat THEN BLOCK_H + 12 ELSE BLOCK_H

RECURSIVE LaidTop(_, _)
LaidTop(ws, i) ==
    IF i = 1 THEN 60
    ELSE LaidTop(ws, i - 1) + (IF ws[i - 1].isHat THEN 14 ELSE 0)
             + LaidHeight(ws[i - 1]) + BLOCK_GAP_P

LaidRect(ws, i) ==
    Rect(SCRIPTS_X + 20,
         LaidTop(ws, i) + (IF ws[i].isHat THEN 14 ELSE 0),
         BLOCK_W + 20,
         LaidHeight(ws[i]))

\* C16: in part_000, after every input event the rect of each workspace
\* block is the one the layout gives from the block's index and the isHat
\* flags of the blocks up to it, and a relayout changes nothing.
C16_RectsAreLaidOut ==
    variant = "part"
    => /\ \A i \in 1..Len(workspace) : workspace[i].rect = LaidRect(workspace, i)
       /\ LayoutWorkspace(workspace) = workspace

\* part_000 at rest with the hat block dropped below another block
C16_Witness ==
    /\ variant = "part"
    /\ ~dragging
    /\ Len(workspace) = 2
    /\ workspace[2].isHat

\* the pointer-down of this step starts a drag of a block of `origin`
PicksUp(origin) == ~Dragging /\ Dragging' /\ dragOrigin' = origin

\* C17: a pointer-down on a workspace block, outside its badge, takes the
\* block out of the workspace at once: the workspace is one block shorter
\* before any pointer-up, the others keep their order, and the block taken
\* out is the floating block.
C17_PickUpRemovesBlock ==
    [][PicksUp("workspace")
       => /\ Len(workspace') = Len(workspace) - 1
          /\ Kinds(workspace') = Kinds(EraseAt(workspace, PickedIdx'))
          /\ <<Floating'.type, Floating'.steps>>
                 = Kinds(workspace)[PickedIdx' + 1]]_vars

\* C18: from the pointer-down on a palette block until the pointer-up, the
\* workspace's sequence (length, kinds, values, order) is what it was: the
\* pick-up and the moves of the floating copy do not change it, and no event
\* changes the palette.
C18_PaletteDragKeepsWorkspace ==
    [][/\ PicksUp("palette") => Kinds(workspace') = Kinds(workspace)
       /\ (Dragging /\ dragOrigin = "palette" /\ Dragging')
          => Kinds(workspace') = Kinds(workspace)
       /\ palette' = palette]_vars

\* C19: the sprite's position and visibility change only in a tick that
\* passes the gate and applies a block: no pointer, key, text-input or wheel
\* event, no start of a drag or of an edit session and no end of one, and
\* neither start() nor STOP changes them.
C19_OnlyTicksMoveSprite ==
    [][spriteV' # spriteV => GatedTick]_vars

\* a run has moved the sprite, after the wheel changed the block's value
C19_Witness ==
    /\ applied >= 1
    /\ spriteX # (IF variant = "main" THEN SPRITE_START_M ELSE STAGE_W_P \div 2)
    /\ \E i \in 1..Len(workspace) : workspace[i].steps = 7 + WHEEL_STEP

\* an optional "-" in front, then digits only
SignedDigits(buf) ==
    \A i \in 1..Len(buf) : IsDigit(buf[i]) \/ (i = 1 /\ buf[i] = "-")

\* C20: while a session is open its buffer is an optional single leading
\* "-" followed by digits, whatever value the block had and whatever text
\* input and Backspace events came.
C20_BufferIsSignedDigits ==
    Editing => SignedDigits(EditBuf)

\* the buffer of a session on a block of value 7 was emptied with Backspace
\* and then took "-" and "1", after more text input than that
C20_Witness ==
    /\ Editing
    /\ typed = Untraced
    /\ editSnapshot[editingIdx + 1].steps = 7
    /\ EditBuf = <<"-", "1">>

\* C21: a second call of BuildPalette() leaves the palette as the first call
\* made it: same length, same blocks in the same order, same rects and
\* default values.
C21_BuildPaletteIdempotent ==
    [][BuildPaletteCall => palette' = palette]_vars

\* the 0-based indices of the trigger blocks of the workspace
TriggerIdxs == {i \in 0..(Len(workspace) - 1) : workspace[i + 1].type = "EVENT_FLAG"}

\* C22: in main.cpp, start() on a workspace with a trigger block sets
\* scriptStep to one past the index of the first trigger block; the blocks of
\* the run are applied from there on in sequence order, one per gated tick,
\* none at or before that trigger, and the run ends only when no block is
\* left after scriptStep.
C22_StartsAfterFirstTrigger ==
    /\ [][(variant = "main" /\ StartCalled /\ TriggerIdxs # {})
          => \E k \in TriggerIdxs :
                 /\ \A j \in TriggerIdxs : k <= j
                 /\ scriptStep' = k + 1
                 /\ running']_vars
    /\ [][(variant = "main" /\ GatedTick)
          => /\ scriptStep = startIndex + applied
             /\ scriptStep' = scriptStep + 1]_vars
    /\ [][(variant = "main" /\ Tick /\ running /\ ~running')
          => scriptStep >= Len(workspace)]_vars

\* main.cpp has run [flag, MOVE_X, MOVE_Y] to its end: two blocks applied
C22_Witness ==
    /\ variant = "main"
    /\ ~running
    /\ Len(workspace) = 3
    /\ workspace[1].type = "EVENT_FLAG"
    /\ startIndex = 1
    /\ applied = 2

\* C23: in part_000, start() looks at slot 0 only: the first block a run
\* applies is index 1 when the workspace is not empty and slot 0 holds the
\* trigger block, and index 0 otherwise, also when a trigger block sits at a
\* later index.
C23_StartLooksAtSlotZero ==
    /\ [][(variant = "part" /\ StartCalled)
          => startIndex' = IF Len(workspace) > 0 /\ workspace[1].type = "EVENT_FLAG"
                           THEN 1
                           ELSE 0]_vars
    /\ [][(variant = "part" /\ GatedTick /\ applied = 0)
          => scriptStep = startIndex]_vars

\* part_000 has applied slot 0 of a workspace whose trigger block is in slot 1
C23_Witness ==
    /\ variant = "part"
    /\ Len(workspace) = 2
    /\ workspace[1].type # "EVENT_FLAG"
    /\ workspace[2].type = "EVENT_FLAG"
    /\ startIndex = 0
    /\ applied = 1

\* C24: in part_000 the sprite stays inside the stage margins in every
\* reachable state: 30 <= spriteX <= 370 and 30 <= spriteY <= 370, whatever
\* the script, its values and the number of runs.
C24_SpriteInsideMargins ==
    variant = "part"
    => /\ spriteX >= 30 /\ spriteX <= 370
       /\ spriteY >= 30 /\ spriteY <= 370

\* part_000 after a second run: a block of value 100000 has pushed the
\* sprite to one margin, a block of value -180 to the other
C24_Witness ==
    /\ variant = "part"
    /\ runs = 2
    /\ applied >= 1
    /\ spriteX = 370
    /\ spriteY = 370
    /\ \E i \in 1..Len(workspace) : workspace[i].steps = 100000
    /\ \E i \in 1..Len(workspace) : workspace[i].steps = -180

\* the pointer-down at p finds a workspace block and a palette block under
\* it, and no badge
HitsBoth(p) ==
    /\ ~Dragging
    /\ ~Editing
    /\ TopHit(workspace, p) >= 0
    /\ FirstHit(palette, p) >= 0
    /\ (IF variant = "main" THEN BadgeHitM(workspace, p) ELSE BadgeHitP(workspace, p)) < 0

\* C25: a pointer-down inside both a workspace block and a palette block
\* picks the workspace block up, the last one of the sequence that holds the
\* point, and makes no copy of the palette block.
C25_WorkspaceBlockWinsTie ==
    [][\A p \in DragPointsP \cup DragPointsM :
           (HitsBoth(p) /\ PointerDown(p))
           => /\ dragOrigin' = "workspace"
              /\ PickedIdx' = TopHit(workspace, p)
              /\ Len(workspace') <= Len(workspace)]_vars

\* the numeral d, without leading zeros, is greater than the numeral e
NumeralGreater(d, e) ==
    \/ Len(d) > Len(e)
    \/ /\ Len(d) = Len(e)
       /\ \E i \in 1..Len(d) :
              /\ DigitVal(d[i]) > DigitVal(e[i])
              /\ \A j \in 1..(i - 1) : d[j] = e[j]

\* buf is digits, with or without a "-" in front, and its value is no int:
\* above 2147483647 or below -2147483648
OutOfIntRange(buf) ==
    LET neg == Len(buf) >= 1 /\ buf[1] = "-"
        mag == IF neg THEN Tail(buf) ELSE buf
    IN  /\ Len(mag) >= 1
        /\ mag[1] # "0"
        /\ \A i \in 1..Len(mag) : IsDigit(mag[i])
        /\ NumeralGreater(mag, <<"2", "1", "4", "7", "4", "8", "3", "6", "4",
                                 IF neg THEN "8" ELSE "7">>)

\* C26: in part_000, Enter with a buffer of digits whose value lies outside
\* the 32-bit signed range stores 0 into the edited block, ends the session
\* and changes no other block; a buffer that holds INT_MAX or INT_MIN
\* stores that value.
C26_OutOfRangeCommitsZero ==
    /\ [][(variant = "part" /\ EnterPressed /\ OutOfIntRange(inputBuffer))
          => /\ workspace' = [workspace EXCEPT ![editingIdx + 1].steps = 0]
             /\ ~Editing']_vars
    /\ [][(variant = "part" /\ EnterPressed
           /\ inputBuffer = <<"2", "1", "4", "7", "4", "8", "3", "6", "4", "7">>)
          => workspace'[editingIdx + 1].steps = INT_MAX]_vars
    /\ [][(variant = "part" /\ EnterPressed
           /\ inputBuffer = <<"-", "2", "1", "4", "7", "4", "8", "3", "6", "4", "8">>)
          => workspace'[editingIdx + 1].steps = -INT_MAX - 1]_vars

\* Enter has stored 0 into a block of value 2 and left the other block alone
\* (no Backspace in this specification: the buffer was out of range)
C26_Witness ==
    /\ variant = "part"
    /\ editEnd = "enter"
    /\ \E i \in 1..Len(workspace) :
           /\ editSnapshot[i].steps = 2
           /\ workspace[i].steps = 0
           /\ \A j \in 1..Len(workspace) : j # i => workspace[j] = editSnapshot[j]

\* C27: no gated tick is spent on a trigger block: whenever a tick passes the
\* gate and applies a step, the block at scriptStep is not of the trigger
\* kind, wherever trigger blocks sit in the workspace.
C27_NoTickOnTrigger ==
    [][GatedTick => workspace[scriptStep + 1].type # "EVENT_FLAG"]_vars

\* C28: UpdateScript reads workspace[scriptStep] only with
\* 0 <= scriptStep < len(workspace), whatever events and ticks came before,
\* drags that shrink the workspace during a run included.
C28_ReadsInsideWorkspace ==
    [][GatedTick => (scriptStep >= 0 /\ scriptStep < Len(workspace))]_vars

\* a run that has applied a block and then lost blocks to a drag, so that
\* scriptStep lies beyond the end of the workspace at the next tick
C28_Witness ==
    /\ Running
    /\ applied >= 1
    /\ scriptStep > Len(workspace)

\* a pointer-down on a value badge, which opens a session
BadgeDown ==
    \/ \E i \in 1..Len(workspace) : MouseDownP(BadgeCentreP(workspace[i]))
    \/ \E i \in 1..Len(workspace) : MouseDownM(BadgeCentreM(workspace[i]))
    \/ Dragging /\ (MouseDownP(DragPointer) \/ MouseDownM(DragPointer))

IsMotion(t) == IF variant = "main" THEN IsMotionM(t) ELSE IsMotionP(t)

\* C29: while an edit session is active its target index lies inside the
\* workspace and designates the motion block whose badge was clicked: the
\* index is in range and on a motion block, and a step that leaves the session
\* open (no new badge click) leaves it on the block of the same kind and value.
C29_SessionKeepsItsBlock ==
    [][/\ Editing' => /\ editingIdx' >= 0
                      /\ editingIdx' < Len(workspace')
                      /\ IsMotion(workspace'[editingIdx' + 1].type)
       /\ (Editing /\ Editing' /\ ~BadgeDown)
              => Kinds(workspace')[editingIdx' + 1] = Kinds(workspace)[editingIdx + 1]
      ]_vars

\* the same elements, each as often
SameBag(s, t) ==
    \A k \in {s[i] : i \in 1..Len(s)} \cup {t[i] : i \in 1..Len(t)} :
        Cardinality({i \in 1..Len(s) : s[i] = k})
            = Cardinality({i \in 1..Len(t) : t[i] = k})

\* C30: in part_000 a drag that picks a workspace block up and drops it inside
\* the workspace region leaves the workspace with the blocks it had: the
\* pointer-down takes the picked block out and changes no other kind or
\* value, and the pointer-up gives a workspace of the length before the
\* pick-up, with the same multiset of (kind, value) and the other blocks in
\* the order they had.
C30_DragKeepsBlocks ==
    [][variant = "part" =>
          /\ PicksUp("workspace")
                => Kinds(InsertAt(workspace', PickedIdx', Floating')) = Kinds(workspace)
          /\ (/\ Dragging
              /\ dragOrigin = "workspace"
              /\ MouseUpP(DragPointer)
              /\ PointInRect(DragPointer, wsRectP))
                => /\ Len(workspace') = Len(dragStart)
                   /\ SameBag(Kinds(workspace'), Kinds(dragStart))
                   /\ \E i \in 1..Len(workspace') :
                          /\ Kinds(workspace')[i] = <<Floating.type, Floating.steps>>
                          /\ Kinds(EraseAt(workspace', i - 1))
                                 = Kinds(EraseAt(dragStart, PickedIdx))]_vars

\* C31: in part_000 a GO click while the script is running restarts nothing:
\* scriptRunning stays set, scriptStep and lastStepTime (the time since the
\* last step) are what they were, StartScript() is not called, and the sprite
\* and the count of applied blocks are untouched, so the run goes on from its
\* current step.
C31_GoWhileRunningKeepsRun ==
    [][(scriptRunning /\ MouseDownP(GoP))
       => /\ scriptRunning'
          /\ scriptStep' = scriptStep
          /\ elapsed' = elapsed
          /\ runs' = runs
          /\ applied' = applied
          /\ startIndex' = startIndex
          /\ spriteV' = spriteV]_vars

\* in the middle of a run, some time after a step, with a block still to
\* apply: the GO click is handled here and leaves this very state
C31_Witness ==
    /\ variant = "part"
    /\ scriptRunning
    /\ runs < MaxStarts
    /\ applied >= 1
    /\ elapsed > 0
    /\ scriptStep >= 1
    /\ scriptStep < Len(workspace)

====
